---- MODULE Spec2Model ----
(***************************************************************************)
(* mini_nginx: the upstream connection pool (src/src/pool.rs) and the      *)
(* proxied exchange of one client connection (src/src/handler.rs).         *)
(*                                                                         *)
(* Spec        the pool shared by concurrent handler tasks: get, recycle,  *)
(*             evict_oldest, with the exchange of handle_reverse_proxy     *)
(*             between a get and a recycle.  Every await of the code is a  *)
(*             separate step; the two critical sections of the pool are    *)
(*             split in two steps each, so that the states inside the lock *)
(*             are visible.                                                *)
(* RelaySpec   the body relay of one response, byte by byte: relay_chunked,*)
(*             relay_content_length and relay_until_eof over every split   *)
(*             of the upstream's bytes into reads.                         *)
(***************************************************************************)
EXTENDS Integers, Sequences, FiniteSets, TLC

\* ------------------------------------------------------------------ bounds
NumTasks == 2        \* concurrent handler tasks (one per accepted client)
NumAddrs == 2        \* upstream addresses of the route table
MaxSocks == 2        \* upstream sockets ever connected in one behaviour
MaxTime == 1         \* readings of the monotonic clock: 0..MaxTime
MaxPoolSize == 1     \* pool.max_size is drawn from 0..MaxPoolSize
MaxIdleSecs == 0     \* pool.max_idle is drawn from 0..MaxIdleSecs
MaxReqBody == 1      \* request body bytes left to stream after the first read
MaxChunks == 1       \* data chunks of a chunked body before its last chunk
MaxRead == 3         \* bytes one upstream read returns: 1..MaxRead
MaxBody == 4         \* body bytes of a response that is not chunked
MaxContentLength == 2 \* Content-Length of such a response: 0..MaxContentLength
MaxFields == 2       \* header fields of a response head
NumWorkers == 2      \* worker_count: the workers of one set
MaxMtime == 2        \* modification times of config.json: 0..MaxMtime
MaxChildren == 6     \* child processes the supervisor ever spawns

Tasks == 1..NumTasks
Addrs == 1..NumAddrs
Socks == 1..MaxSocks

\* ------------------------------------------------------------------- state
VARIABLES
    conns,       \* PoolState.conns: address -> queue of PooledConn (head oldest)
    total,       \* PoolState.total
    lock,        \* holder of the Mutex<PoolState>: a task, or 0
    max_size,    \* ConnectionPool.max_size
    max_idle,    \* ConnectionPool.max_idle
    now,         \* the monotonic clock read by Instant::now() / elapsed()
    next_sock,   \* the next socket TcpStream::connect creates
    sock,        \* socket -> the TcpStream: its life and what happened on it
    task,        \* task -> the locals of handle_client / handle_reverse_proxy / get
    upstream,    \* RelaySpec: the upstream side of the socket being relayed
    response_head, \* RelaySpec: ResponseHead.body_prefix and .info
    relay,       \* RelaySpec: the locals of the running relay_* function
    client,      \* RelaySpec: the body bytes written to the client so far
    client_head, \* RelaySpec: the header bytes written to the client so far
    request,     \* RequestSpec: the first read of a client and its routing
    forwarded,   \* RequestSpec: the request bytes written to the upstream
    master,      \* MasterSpec: the locals of run_master_process
    children,    \* MasterSpec: child process -> its life and the set it was spawned in
    config_file, \* MasterSpec: config.json as fs::metadata sees it
    reading      \* HeadSpec: the locals of read_response_head and the stream it reads

exchangeVars == <<conns, total, lock, max_size, max_idle, now, next_sock, sock, task>>
relayVars == <<upstream, response_head, relay, client, client_head>>
\* what no step of the exchange changes: the configuration, and the relay of RelaySpec
requestVars == <<request, forwarded>>
masterVars == <<master, children, config_file>>
idleVars == <<max_size, max_idle, relayVars, requestVars, masterVars, reading>>
\* what no step of the body relay changes
offRelayVars == <<exchangeVars, requestVars, masterVars, client_head, reading>>
\* what no step of the request routing and rewriting changes
offRequestVars == <<exchangeVars, relayVars, masterVars, reading>>
\* what no step of the supervisor changes
offMasterVars == <<exchangeVars, relayVars, requestVars, reading>>
\* what no step of read_response_head changes
offReadingVars == <<exchangeVars, relayVars, requestVars, masterVars>>
vars == <<conns, total, lock, max_size, max_idle, now, next_sock, sock, task,
          upstream, response_head, relay, client, client_head, request, forwarded,
          master, children, config_file, reading>>

poolVars == <<conns, total, lock>>

\* a TcpStream: life is "unborn" (not connected yet), "open" or "dropped";
\* peer_closed: the upstream has closed its side; unread: bytes wait unread;
\* resp_close: a response with keep_alive = false was parsed on it;
\* io_failed: a read or write of its exchange failed
NoSock == [life |-> "unborn", peer_closed |-> FALSE, unread |-> FALSE,
           resp_close |-> FALSE, io_failed |-> FALSE]
OpenSock == [NoSock EXCEPT !.life = "open"]
DroppedSock == [NoSock EXCEPT !.life = "dropped"]

NoEntry == [stream |-> 0, last_used |-> 0]
NoInfo == [keep_alive |-> FALSE, content_length |-> -1, chunked |-> FALSE]

\* the locals of the frame a task is in.  discarded: why get has just dropped
\* a candidate; evicted: the stream the running recycle evicted last (0: none);
\* path: the request path, kept until the step after the routing
IdleTask == [pc |-> "idle", addr |-> 0, entry |-> NoEntry, upstream_stream |-> 0,
             remaining |-> 0, info |-> NoInfo, discarded |-> "none", evicted |-> 0,
             path |-> <<>>]

\* ------------------------------------------------------- pure helpers
RECURSIVE SumLen(_, _)
SumLen(m, keys) ==
    IF keys = {} THEN 0
    ELSE LET k == CHOOSE x \in keys : TRUE
         IN Len(m[k]) + SumLen(m, keys \ {k})

\* the sum of the lengths of all per-address queues
QueueSum == SumLen(conns, DOMAIN conns)

\* usize::saturating_sub
SaturatingSub(a, b) == IF a >= b THEN a - b ELSE 0

\* streams.pop_back(): the entry popped
Front(q) == q[1]
Back(q) == q[Len(q)]

\* VecDeque::push_back(PooledConn { stream, last_used })
PushFront(q, e) == <<e>> \o q
PushBack(q, e) == Append(q, e)

\* streams.pop_back(): the queue that is left
PopBackKeeps(q) == q
PopBack(q) == SubSeq(q, 1, Len(q) - 1)

\* state.total after get has popped an entry
TotalAfterPopStale(n) == n
TotalAfterPop(n) == SaturatingSub(n, 1)

\* while state.total > self.max_size
OverCapacityOffByOne(n, cap) == n > cap + 1
OverCapacity(n, cap) == n > cap

\* the addresses evict_oldest can settle on: those whose queue head has the
\* minimum last_used over all queue heads (HashMap iteration order is
\* arbitrary and the comparison is strict, so any of them can be the first)
AnyNonEmptyAddrs(m) == {a \in DOMAIN m : Len(m[a]) > 0}
OldestAddrs(m) ==
    {a \in DOMAIN m :
        /\ Len(m[a]) > 0
        /\ \A b \in DOMAIN m :
              Len(m[b]) > 0 => m[a][1].last_used <= m[b][1].last_used}

\* entry.last_used.elapsed() > self.max_idle
Expired(e) == now - e.last_used > max_idle

\* the outcomes timeout(probe_timeout, stream.peek(&mut buf)) can have on a
\* stream: bytes to peek at, Ok(0) from a closed peer, the timeout on a silent
\* open peer, an error on a reset connection
ProbeResults(k) ==
    (IF k.unread THEN {"data"} ELSE {})
    \cup (IF ~k.unread /\ k.peer_closed THEN {"zero"} ELSE {})
    \cup (IF ~k.unread /\ ~k.peer_closed THEN {"timeout"} ELSE {})
    \cup (IF k.peer_closed THEN {"error"} ELSE {})

\* the match on the probe result: TRUE when get returns the stream
ProbeAcceptsZero(r) == r \in {"data", "zero"}
ProbeAccepts(r) == r = "data"

\* the response heads an upstream can send, reduced to what parse_response_info
\* reads; content_length -1: no Content-Length header
HeadersWith(lengths) ==
    [version : {"HTTP/1.0", "HTTP/1.1"},
     connection : {"absent", "close", "keep-alive"},
     transfer_encoding : {"absent", "chunked"},
     content_length : {-1} \cup lengths]

Headers == HeadersWith({MaxContentLength})

parse_response_info(h) ==
    [keep_alive |->
        IF h.version = "HTTP/1.0"
        THEN h.connection = "keep-alive"
        ELSE ~(h.connection = "close"),
     content_length |-> h.content_length,
     chunked |-> h.transfer_encoding = "chunked"]

\* the branch of handle_reverse_proxy that relays the body
StrategyLengthFirst(i) ==
    IF i.content_length # -1 THEN "content_length"
    ELSE IF i.chunked THEN "chunked"
    ELSE "until_eof"
Strategy(i) ==
    IF i.chunked THEN "chunked"
    ELSE IF i.content_length # -1 THEN "content_length"
    ELSE "until_eof"

\* match relay_result { Ok(()) => if keep_alive { recycle } ... }
RecyclesAnyOk(ok, i) == ok
Recycles(ok, i) == ok /\ i.keep_alive

\* str::starts_with
starts_with(s, p) == Len(p) <= Len(s) /\ SubSeq(s, 1, Len(p)) = p

\* config.upstreams: route prefix -> upstream address
Upstreams ==
    (<<"/", "a">> :> 1) @@ (<<"/", "a", "/", "a">> :> 2) @@ (<<"/", "c">> :> 2)

\* the paths of the requests clients send
Paths ==
    {<<"/">>, <<"/", "x">>, <<"/", "a">>, <<"/", "a", "/", "x">>,
     <<"/", "a", "/", "a">>, <<"/", "a", "/", "a", "/", "a">>,
     <<"/", "c", "/", "a">>, <<"/", "x", "/", "a">>}

\* the routes the loop over config.upstreams can break on (HashMap order)
AllRoutes(path) == DOMAIN Upstreams
MatchingRoutes(path) == {r \in DOMAIN Upstreams : starts_with(path, r)}

\* ------------------------------------------------------------- shorthands
Set(t, r) == task' = [task EXCEPT ![t] = r]
Goto(t, p) == task' = [task EXCEPT ![t].pc = p]

\* the TcpStream s goes out of scope
Drop(s) == sock' = [sock EXCEPT ![s] = DroppedSock]

\* the sockets idle in the pool
PooledSocks ==
    UNION {{conns[a][i].stream : i \in 1..Len(conns[a])} : a \in DOMAIN conns}

\* the relay of RelaySpec, at rest
NoUpstream == [stream |-> <<>>, pos |-> 0, closed |-> FALSE]
NoHead == [header |-> <<>>, body_prefix |-> <<>>, info |-> NoInfo]
NoRelay == [pc |-> "off", fn |-> "none", buffer |-> <<>>, mode |-> "line",
            parse_pos |-> 0, after_line |-> 0, needed |-> 0, remaining |-> 0,
            temp |-> <<>>]

\* the request of RequestSpec, at rest
NoRequest == [pc |-> "off", request_bytes |-> <<>>, route |-> <<>>]

RelayAtRest ==
    /\ upstream = NoUpstream
    /\ response_head = NoHead
    /\ relay = NoRelay
    /\ client = <<>>
    /\ client_head = <<>>

RequestAtRest ==
    /\ request = NoRequest
    /\ forwarded = <<>>

\* the supervisor of MasterSpec, not started
NoMaster == [pc |-> "off", last_modified |-> 0, workers |-> <<>>, i |-> 0,
             observed |-> -1, spawned |-> 0]

\* read_response_head is not running
NoReading == [pc |-> "off", head_end |-> 0, sent |-> 0, buffer |-> 0,
              header |-> 0, body_prefix |-> 0]
ReadingAtRest == reading = NoReading

MasterAtRest ==
    /\ master = NoMaster
    /\ children = <<>>
    /\ config_file = [modified |-> 0, readable |-> TRUE]

\* -------------------------------------------------------------------- Init
Init ==
    /\ RelayAtRest
    /\ RequestAtRest
    /\ MasterAtRest
    /\ ReadingAtRest
    /\ conns = <<>>
    /\ total = 0
    /\ lock = 0
    /\ max_size \in 0..MaxPoolSize
    /\ max_idle \in 0..MaxIdleSecs
    /\ now = 0
    /\ next_sock = 1
    /\ sock = [s \in Socks |-> NoSock]
    /\ task = [t \in Tasks |-> IdleTask]

\* ------------------------------------------------------------ handle_client
\* the first read of the client fails or returns 0: no response
ClientGone(t) ==
    /\ task[t].pc = "idle"
    /\ Goto(t, "gone")
    /\ UNCHANGED <<poolVars, idleVars, now, next_sock, sock>>

\* no route prefix matches the path: the static responder answers
RouteStatic(t) ==
    /\ task[t].pc = "idle"
    /\ \E q \in Paths :
          /\ MatchingRoutes(q) = {}
          /\ Set(t, [IdleTask EXCEPT !.pc = "static", !.path = q])
    /\ UNCHANGED <<poolVars, idleVars, now, next_sock, sock>>

\* a route prefix matches: handle_reverse_proxy with its upstream address
RouteProxy(t) ==
    /\ task[t].pc = "idle"
    /\ \E q \in Paths :
       \E r \in MatchingRoutes(q) :
          Set(t, [IdleTask EXCEPT !.pc = "get", !.addr = Upstreams[r], !.path = q])
    /\ UNCHANGED <<poolVars, idleVars, now, next_sock, sock>>

\* handle_client returns (after the static response, the 502, or nothing)
HandlerReturns(t) ==
    /\ task[t].pc \in {"gone", "static", "bad_gateway"}
    /\ Set(t, IdleTask)
    /\ UNCHANGED <<poolVars, idleVars, now, next_sock, sock>>

\* ----------------------------------------------------- ConnectionPool::get
\* lock, then conns.get_mut(addr).and_then(|streams| streams.pop_back())
GetPop(t) ==
    /\ task[t].pc = "get"
    /\ lock = 0
    /\ lock' = t
    /\ LET a == task[t].addr IN
       IF a \in DOMAIN conns /\ Len(conns[a]) > 0
       THEN /\ conns' = [conns EXCEPT ![a] = PopBack(@)]
            /\ Set(t, [task[t] EXCEPT !.pc = "get_unlock", !.discarded = "none",
                                      !.path = <<>>,
                                      !.entry = Back(conns[a])])
       ELSE /\ conns' = conns
            /\ Set(t, [task[t] EXCEPT !.pc = "get_unlock", !.discarded = "none",
                                      !.path = <<>>, !.entry = NoEntry])
    /\ UNCHANGED <<total, idleVars, now, next_sock, sock>>

\* the holder of the lock once the block of let entry = { .. } has ended: the
\* MutexGuard state is a local of that block
GuardOutlivesBlock(t) == t
GuardAfterBlock(t) == 0

\* if entry.is_some() { total = total.saturating_sub(1) }, then the guard drops
GetUnlock(t) ==
    /\ task[t].pc = "get_unlock"
    /\ lock = t
    /\ lock' = GuardAfterBlock(t)
    /\ IF task[t].entry # NoEntry
       THEN /\ total' = TotalAfterPop(total)
            /\ Goto(t, "check")
       ELSE /\ total' = total
            /\ Goto(t, "connect")
    /\ UNCHANGED <<conns, idleVars, now, next_sock, sock>>

\* the popped entry has been idle for longer than max_idle: dropped, next entry
GetExpired(t) ==
    /\ task[t].pc = "check"
    /\ Expired(task[t].entry)
    /\ Drop(task[t].entry.stream)
    /\ Set(t, [task[t] EXCEPT !.pc = "get", !.entry = NoEntry,
                              !.discarded = "expired"])
    /\ UNCHANGED <<poolVars, idleVars, now, next_sock>>

\* the liveness probe: peek under probe_timeout; the stream is returned or dropped
GetProbe(t) ==
    /\ task[t].pc = "check"
    /\ ~Expired(task[t].entry)
    /\ LET s == task[t].entry.stream IN
       \E r \in ProbeResults(sock[s]) :
          IF ProbeAccepts(r)
          THEN /\ Set(t, [task[t] EXCEPT !.pc = "send", !.entry = NoEntry,
                                         !.upstream_stream = s])
               /\ UNCHANGED sock
          ELSE /\ Drop(s)
               /\ Set(t, [task[t] EXCEPT !.pc = "get", !.entry = NoEntry,
                                         !.discarded = r])
    /\ UNCHANGED <<poolVars, idleVars, now, next_sock>>

\* the queue is exhausted: TcpStream::connect(addr) succeeds
ConnectOk(t) ==
    /\ task[t].pc = "connect"
    /\ next_sock <= MaxSocks
    /\ next_sock' = next_sock + 1
    /\ sock' = [sock EXCEPT ![next_sock] = OpenSock]
    /\ Set(t, [task[t] EXCEPT !.pc = "send", !.upstream_stream = next_sock])
    /\ UNCHANGED <<poolVars, idleVars, now>>

\* the Err arm of match pool.get(upstream_addr).await: the locals r of the task
\* when the 502 Bad Gateway is written to the client
GetErrRetries(r) == [r EXCEPT !.pc = "get"]
GetErr(r) == [r EXCEPT !.pc = "bad_gateway"]

\* TcpStream::connect(addr) fails: get returns Err, the client gets the 502
ConnectFails(t) ==
    /\ task[t].pc = "connect"
    /\ Set(t, GetErr(task[t]))
    /\ UNCHANGED <<poolVars, idleVars, now, next_sock, sock>>

\* ---------------------------------------------------- handle_reverse_proxy
\* a read or write of the exchange on upstream_stream fails
Failed(t) == sock' = [sock EXCEPT ![task[t].upstream_stream].io_failed = TRUE]

\* a return that drops the upstream stream of the exchange
Abort(t) ==
    /\ Drop(task[t].upstream_stream)
    /\ Set(t, IdleTask)

\* upstream_stream.write_all(&new_request_bytes), then remaining: the part of
\* a Content-Length request body that the first read did not carry
WriteRequest(t) ==
    /\ task[t].pc = "send"
    /\ \/ /\ \E rem \in 0..MaxReqBody :
                Set(t, [task[t] EXCEPT !.pc = IF rem > 0 THEN "body" ELSE "head",
                                       !.remaining = rem])
          /\ UNCHANGED sock
       \/ Abort(t)
    /\ UNCHANGED <<poolVars, idleVars, now, next_sock>>

\* one turn of the loop that streams the rest of the request body: the client
\* read returns Ok(0) (break), Err (break), or n bytes of which
\* n.min(remaining) are written to the upstream
StreamRequestBody(t) ==
    /\ task[t].pc = "body"
    /\ \/ /\ Set(t, [task[t] EXCEPT !.pc = "head", !.remaining = 0])
          /\ UNCHANGED sock
       \/ /\ Set(t, [task[t] EXCEPT !.pc = "head", !.remaining = 0])
          /\ Failed(t)
       \/ \E n \in 1..(MaxReqBody + 1) :
             LET to_write == IF n < task[t].remaining THEN n ELSE task[t].remaining
                 left == task[t].remaining - to_write
             IN \/ /\ Set(t, [task[t] EXCEPT
                               !.pc = IF left > 0 THEN "body" ELSE "head",
                               !.remaining = left])
                   /\ UNCHANGED sock
                \/ Abort(t)
    /\ UNCHANGED <<poolVars, idleVars, now, next_sock>>

\* read_response_head: a head is read and parsed, or the read fails
\* (UnexpectedEof, header too large, I/O error)
ReadResponseHead(t) ==
    /\ task[t].pc = "head"
    /\ LET s == task[t].upstream_stream IN
       \/ \E h \in Headers :
             LET i == parse_response_info(h) IN
             /\ Set(t, [task[t] EXCEPT !.pc = "write_head", !.info = i])
             /\ sock' = [sock EXCEPT ![s].unread = FALSE,
                                     ![s].resp_close = ~i.keep_alive]
       \/ Abort(t)
    /\ UNCHANGED <<poolVars, idleVars, now, next_sock>>

\* stream.write_all(&response_head.header)
WriteResponseHead(t) ==
    /\ task[t].pc = "write_head"
    /\ \/ /\ Goto(t, "relay")
          /\ UNCHANGED sock
       \/ Abort(t)
    /\ UNCHANGED <<poolVars, idleVars, now, next_sock>>

\* how the body relay of a strategy can end: Ok(()) with the body complete,
\* Ok(()) after the upstream closed, or Err / a failed write of the body prefix
RelayOutcomes(st) ==
    CASE st = "chunked" -> {"ok", "err"}
      [] st = "content_length" -> {"ok", "ok_eof", "err"}
      [] st = "until_eof" -> {"ok_eof", "err"}

\* the body relay and the match on relay_result
RelayBody(t) ==
    /\ task[t].pc = "relay"
    /\ LET s == task[t].upstream_stream IN
       \E o \in RelayOutcomes(Strategy(task[t].info)) :
          IF Recycles(o # "err", task[t].info)
          THEN /\ Set(t, [task[t] EXCEPT !.pc = "recycle", !.info = NoInfo])
               /\ sock' = [sock EXCEPT ![s].peer_closed = (o = "ok_eof"),
                                       ![s].io_failed = @ \/ (o = "err")]
          ELSE Abort(t)
    /\ UNCHANGED <<poolVars, idleVars, now, next_sock>>

\* ------------------------------------------------- ConnectionPool::recycle
\* lock, then conns.entry(addr).or_insert_with(VecDeque::new).push_back(..)
RecyclePush(t) ==
    /\ task[t].pc = "recycle"
    /\ lock = 0
    /\ lock' = t
    /\ LET a == task[t].addr
           e == [stream |-> task[t].upstream_stream, last_used |-> now]
       IN conns' = IF a \in DOMAIN conns
                   THEN [conns EXCEPT ![a] = PushBack(@, e)]
                   ELSE conns @@ (a :> PushBack(<<>>, e))
    /\ Set(t, [task[t] EXCEPT !.pc = "recycle_inc", !.upstream_stream = 0])
    /\ UNCHANGED <<total, idleVars, now, next_sock, sock>>

\* state.total = state.total.saturating_add(1)
RecycleInc(t) ==
    /\ task[t].pc = "recycle_inc"
    /\ lock = t
    /\ total' = total + 1
    /\ Goto(t, "recycle_loop")
    /\ UNCHANGED <<conns, lock, idleVars, now, next_sock, sock>>

\* one turn of while total > max_size { if !evict_oldest(&mut state) { break } }
RecycleEvict(t) ==
    /\ task[t].pc = "recycle_loop"
    /\ lock = t
    /\ OverCapacity(total, max_size)
    /\ IF OldestAddrs(conns) = {}
       THEN \* evict_oldest returns false: break, the guard drops
            /\ lock' = 0
            /\ Set(t, IdleTask)
            /\ UNCHANGED <<conns, total, sock>>
       ELSE \E a \in OldestAddrs(conns) :
            /\ conns' = IF Len(conns[a]) = 1
                        THEN [b \in DOMAIN conns \ {a} |-> conns[b]]
                        ELSE [conns EXCEPT ![a] = Tail(@)]
            /\ total' = SaturatingSub(total, 1)
            /\ Drop(conns[a][1].stream)
            /\ Set(t, [task[t] EXCEPT !.evicted = conns[a][1].stream])
            /\ UNCHANGED lock
    /\ UNCHANGED <<idleVars, now, next_sock>>

\* the loop ends, recycle returns and the guard drops
RecycleReturn(t) ==
    /\ task[t].pc = "recycle_loop"
    /\ lock = t
    /\ ~OverCapacity(total, max_size)
    /\ lock' = 0
    /\ Set(t, IdleTask)
    /\ UNCHANGED <<conns, total, idleVars, now, next_sock, sock>>

\* -------------------------------------------------------------- environment
\* the monotonic clock advances
Tick ==
    /\ now < MaxTime
    /\ now' = now + 1
    /\ UNCHANGED <<poolVars, idleVars, next_sock, sock, task>>

\* the upstream sends bytes on an idle pooled connection
PeerSends(s) ==
    /\ s \in PooledSocks
    /\ ~sock[s].peer_closed
    /\ ~sock[s].unread
    /\ sock' = [sock EXCEPT ![s].unread = TRUE]
    /\ UNCHANGED <<poolVars, idleVars, now, next_sock, task>>

\* the upstream closes an idle pooled connection
PeerCloses(s) ==
    /\ s \in PooledSocks
    /\ ~sock[s].peer_closed
    /\ sock' = [sock EXCEPT ![s].peer_closed = TRUE]
    /\ UNCHANGED <<poolVars, idleVars, now, next_sock, task>>

\* -------------------------------------------------------------------- Spec
Next ==
    \/ \E t \in Tasks :
          \/ ClientGone(t)
          \/ RouteStatic(t)
          \/ RouteProxy(t)
          \/ HandlerReturns(t)
          \/ GetPop(t)
          \/ GetUnlock(t)
          \/ GetExpired(t)
          \/ GetProbe(t)
          \/ ConnectOk(t)
          \/ ConnectFails(t)
          \/ WriteRequest(t)
          \/ StreamRequestBody(t)
          \/ ReadResponseHead(t)
          \/ WriteResponseHead(t)
          \/ RelayBody(t)
          \/ RecyclePush(t)
          \/ RecycleInc(t)
          \/ RecycleEvict(t)
          \/ RecycleReturn(t)
    \/ \E s \in Socks : PeerSends(s) \/ PeerCloses(s)
    \/ Tick

Spec == Init /\ [][Next]_vars

\* ------------------------------------------------------------------ GetSpec
\* the queue of address a when the sockets 1..n idle in the pool, socket k
\* recycled for address addr_of[k] at time used_at[k], in the order 1..n
QueueOf(a, n, addr_of, used_at) ==
    LET mine == SelectSeq([k \in 1..n |-> k], LAMBDA k : addr_of[k] = a)
    IN [j \in 1..Len(mine) |-> [stream |-> mine[j], last_used |-> used_at[mine[j]]]]

\* GetSpec: Init is a pool with up to MaxSocks idle connections, one task
\* entering get and, if a socket is left, a second task entering recycle
GetInit ==
    /\ RelayAtRest
    /\ RequestAtRest
    /\ MasterAtRest
    /\ ReadingAtRest
    /\ lock = 0
    /\ max_idle \in 0..MaxTime
    /\ now \in 0..MaxTime
    /\ \E n \in 0..MaxSocks :
       \E addr_of \in [1..n -> Addrs] :
       \E used_at \in [1..n -> 0..now] :
       \E waiting \in [1..n -> [unread : BOOLEAN, peer_closed : BOOLEAN]] :
       \E recycling \in {0} \cup (IF n < MaxSocks THEN Addrs ELSE {}) :
       \E a \in Addrs :
          /\ \A j, k \in 1..n : j < k => used_at[j] <= used_at[k]
          /\ total = n
          /\ max_size \in n..MaxSocks
          /\ conns = [b \in {addr_of[k] : k \in 1..n} |-> QueueOf(b, n, addr_of, used_at)]
          /\ sock = [k \in Socks |->
                       IF k <= n
                       THEN [OpenSock EXCEPT !.unread = waiting[k].unread,
                                             !.peer_closed = waiting[k].peer_closed]
                       ELSE IF k = n + 1 /\ recycling # 0 THEN OpenSock
                       ELSE NoSock]
          /\ next_sock = n + 1 + (IF recycling # 0 THEN 1 ELSE 0)
          /\ task = [t \in Tasks |->
                       IF t = 1 THEN [IdleTask EXCEPT !.pc = "get", !.addr = a]
                       ELSE IF t = 2 /\ recycling # 0
                       THEN [IdleTask EXCEPT !.pc = "recycle", !.addr = recycling,
                                             !.upstream_stream = n + 1]
                       ELSE IdleTask]

GetNext ==
    \/ \E t \in Tasks :
          \/ GetPop(t)
          \/ GetUnlock(t)
          \/ GetExpired(t)
          \/ GetProbe(t)
          \/ ConnectOk(t)
          \/ ConnectFails(t)
          \/ RecyclePush(t)
          \/ RecycleInc(t)
          \/ RecycleEvict(t)
          \/ RecycleReturn(t)
    \/ \E s \in Socks : PeerSends(s) \/ PeerCloses(s)
    \/ Tick

GetSpec == GetInit /\ [][GetNext]_vars

\* ====================================================== the body relay, bytes
CR == "\r"
LF == "\n"

\* b[from..to] of a byte slice (offsets count from 0, as in the code)
Slice(b, from, to) == SubSeq(b, from + 1, to)

\* b[from..].windows(Len(pat)).position(|w| w == pat), as an offset into b; -1: None
RECURSIVE FindFrom(_, _, _)
FindFrom(b, from, pat) ==
    IF from + Len(pat) > Len(b) THEN -1
    ELSE IF Slice(b, from, from + Len(pat)) = pat THEN from
    ELSE FindFrom(b, from + 1, pat)

HexDigits == <<"0", "1", "2", "3", "4", "5", "6", "7", "8", "9",
               "a", "b", "c", "d", "e", "f">>
UpperHex == <<"0", "1", "2", "3", "4", "5", "6", "7", "8", "9",
              "A", "B", "C", "D", "E", "F">>

\* the value of a hex digit; -1: not a digit
HexValue(c) ==
    IF \E i \in 1..16 : HexDigits[i] = c \/ UpperHex[i] = c
    THEN (CHOOSE i \in 1..16 : HexDigits[i] = c \/ UpperHex[i] = c) - 1
    ELSE -1

Whitespace == {" ", "\t", CR, LF}

\* str::trim
RECURSIVE Trim(_)
Trim(b) ==
    IF b = <<>> THEN b
    ELSE IF b[1] \in Whitespace THEN Trim(Tail(b))
    ELSE IF b[Len(b)] \in Whitespace THEN Trim(SubSeq(b, 1, Len(b) - 1))
    ELSE b

\* the digits of usize::from_str_radix(_, 16), most significant first; -1: Err
RECURSIVE HexNumber(_, _)
HexNumber(b, acc) ==
    IF b = <<>> THEN acc
    ELSE IF HexValue(b[1]) = -1 THEN -1
    ELSE HexNumber(Tail(b), 16 * acc + HexValue(b[1]))

\* parse_chunk_size: the line up to a ';', trimmed, as a hex number (a leading
\* '+' is accepted by from_str_radix); -1: InvalidData
parse_chunk_size(line) ==
    LET semi == FindFrom(line, 0, <<";">>)
        size_str == Trim(Slice(line, 0, IF semi = -1 THEN Len(line) ELSE semi))
        digits == IF size_str # <<>> /\ size_str[1] = "+" THEN Tail(size_str)
                  ELSE size_str
    IN IF digits = <<>> THEN -1 ELSE HexNumber(digits, 0)

\* relay_chunked between two awaits: parse on from the locals r until more
\* bytes are needed (pc stays "parse") or the function returns
RECURSIVE ParseChunks(_)
ParseChunks(r) ==
    CASE r.mode = "line" ->
            LET line_end == FindFrom(r.buffer, r.parse_pos, <<CR, LF>>) IN
            IF line_end = -1 THEN r
            ELSE LET size == parse_chunk_size(Slice(r.buffer, r.parse_pos, line_end))
                 IN IF size = -1 THEN [r EXCEPT !.pc = "invalid_chunk_size"]
                    ELSE IF size = 0
                    THEN ParseChunks([r EXCEPT !.mode = "trailer",
                                               !.after_line = line_end + 2])
                    ELSE ParseChunks([r EXCEPT !.mode = "data",
                                               !.after_line = line_end + 2,
                                               !.needed = line_end + 2 + size + 2])
      [] r.mode = "trailer" ->
            IF FindFrom(r.buffer, r.after_line, <<CR, LF, CR, LF>>) # -1
            THEN [r EXCEPT !.pc = "ok"]
            ELSE r
      [] r.mode = "data" ->
            IF Len(r.buffer) < r.needed THEN r
            ELSE ParseChunks([r EXCEPT !.mode = "line", !.parse_pos = r.needed])

\* the locals after the parse: waiting on the next upstream read, or returned
AfterParse(r) ==
    LET q == ParseChunks([r EXCEPT !.pc = "parse"])
    IN IF q.pc = "parse" THEN [q EXCEPT !.pc = "chunked_read"] ELSE q

\* what client.write_all(&temp[..n]) of relay_chunked sends for a block read
ForwardWithoutFraming(block) == SelectSeq(block, LAMBDA c : c \notin {CR, LF})
Forward(block) == block

\* ---- the bodies an upstream sends
DataChunks ==
    {<<"1", CR, LF, "x", CR, LF>>,
     <<"2", CR, LF, CR, LF, CR, LF>>,
     <<"1", ";", "k", CR, LF, "y", CR, LF>>}
LastChunks == {<<"0", CR, LF>>, <<"0", ";", "k", CR, LF>>}
Trailers == {<<CR, LF>>, <<"T", CR, LF, CR, LF>>}
AfterBody == {<<>>, <<"x">>}
Malformed == {<<"z", CR, LF>>, <<CR, LF>>}

RECURSIVE ChunkSeqs(_)
ChunkSeqs(n) ==
    IF n = 0 THEN {<<>>}
    ELSE ChunkSeqs(n - 1)
         \cup {c \o d : c \in ChunkSeqs(n - 1), d \in DataChunks}

ChunkedStreams ==
    {c \o l \o t \o x :
        c \in ChunkSeqs(MaxChunks), l \in LastChunks, t \in Trailers, x \in AfterBody}
    \cup {c \o m : c \in ChunkSeqs(MaxChunks), m \in Malformed}

\* a body without framing: k distinct bytes
PlainBody(k) == [i \in 1..k |-> ToString(i)]
PlainStreams == {PlainBody(k) : k \in 0..MaxBody}

\* the bytes the relay has taken from the upstream, body prefix included
Received == Slice(upstream.stream, 0, upstream.pos)

\* the header bytes of a response, for the relay: a status line and the
\* terminator (the header fields are in response_head.info)
ResponseHeader == <<"H", CR, LF, CR, LF>>

\* ---- RelaySpec: Init is handle_reverse_proxy after read_response_head
PoolAtRest ==
    /\ conns = <<>>
    /\ total = 0
    /\ lock = 0
    /\ max_size = 0
    /\ max_idle = 0
    /\ now = 0
    /\ next_sock = 1
    /\ sock = [s \in Socks |-> NoSock]
    /\ task = [t \in Tasks |-> IdleTask]

RelayInit ==
    /\ PoolAtRest
    /\ RequestAtRest
    /\ MasterAtRest
    /\ ReadingAtRest
    /\ client = <<>>
    /\ client_head = <<>>
    /\ relay = [NoRelay EXCEPT !.pc = "write_head"]
    /\ \E h \in HeadersWith(0..MaxContentLength) :
       \E body \in IF h.transfer_encoding = "chunked" THEN ChunkedStreams
                   ELSE PlainStreams :
       \E k \in 0..Len(body) :
          /\ h.version = "HTTP/1.1"
          /\ h.connection = "absent"
          /\ response_head = [header |-> ResponseHeader,
                              body_prefix |-> Slice(body, 0, k),
                              info |-> parse_response_info(h)]
          /\ upstream = [stream |-> body, pos |-> k, closed |-> FALSE]

RelayRunning == relay.pc \notin {"off", "ok", "io_error", "unexpected_eof",
                                 "invalid_chunk_size"}

\* upstream.read(&mut temp) returning n > 0 bytes: the block read
ReadBlock(n) == Slice(upstream.stream, upstream.pos, upstream.pos + n)

CanRead(n) == ~upstream.closed /\ upstream.pos + n <= Len(upstream.stream)

\* the upstream closes its side; what it had not sent yet is never sent
UpstreamCloses ==
    /\ RelayRunning
    /\ ~upstream.closed
    /\ upstream' = [upstream EXCEPT !.closed = TRUE]
    /\ UNCHANGED <<offRelayVars, response_head, relay, client>>

\* what a write_all that fails has put on the wire: less than the whole block
PartialWrites(block) == {Slice(block, 0, j) : j \in 0..(Len(block) - 1)}

\* where handle_reverse_proxy is after a failed write of the header: returned
HeadWriteIgnored == "start"
HeadWriteFailed == "io_error"

\* stream.write_all(&response_head.header), before any strategy runs
RelayWriteHead ==
    /\ relay.pc = "write_head"
    /\ \/ /\ client_head' = client_head \o response_head.header
          /\ relay' = [relay EXCEPT !.pc = "start"]
       \/ \E part \in PartialWrites(response_head.header) :
             /\ client_head' = client_head \o part
             /\ relay' = [relay EXCEPT !.pc = HeadWriteFailed]
    /\ UNCHANGED <<exchangeVars, requestVars, masterVars, reading, response_head,
                   upstream, client>>

\* relay_chunked up to its first read: the body prefix goes to the client
RelayChunkedStart ==
    /\ relay.pc = "start"
    /\ Strategy(response_head.info) = "chunked"
    /\ LET r == [relay EXCEPT !.fn = "relay_chunked",
                              !.buffer = response_head.body_prefix] IN
       \/ /\ client' = client \o Forward(response_head.body_prefix)
          /\ relay' = AfterParse(r)
       \/ \E part \in PartialWrites(Forward(response_head.body_prefix)) :
             /\ client' = client \o part
             /\ relay' = [r EXCEPT !.pc = "io_error"]
    /\ UNCHANGED <<offRelayVars, response_head, upstream>>

\* upstream.read(&mut temp) in relay_chunked, and buffer.extend_from_slice
RelayChunkedRead ==
    /\ relay.pc = "chunked_read"
    /\ \/ \E n \in 1..MaxRead :
             /\ CanRead(n)
             /\ relay' = [relay EXCEPT !.pc = "chunked_write",
                                       !.buffer = @ \o ReadBlock(n),
                                       !.temp = ReadBlock(n)]
             /\ upstream' = [upstream EXCEPT !.pos = @ + n]
       \/ /\ upstream.closed
          /\ relay' = [relay EXCEPT !.pc = "unexpected_eof"]
          /\ UNCHANGED upstream
       \/ /\ relay' = [relay EXCEPT !.pc = "io_error"]
          /\ UNCHANGED upstream
    /\ UNCHANGED <<offRelayVars, response_head, client>>

\* client.write_all(&temp[..n]) in relay_chunked, then the parse goes on
RelayChunkedWrite ==
    /\ relay.pc = "chunked_write"
    /\ \/ /\ client' = client \o Forward(relay.temp)
          /\ relay' = AfterParse([relay EXCEPT !.temp = <<>>])
       \/ \E part \in PartialWrites(Forward(relay.temp)) :
             /\ client' = client \o part
             /\ relay' = [relay EXCEPT !.pc = "io_error"]
    /\ UNCHANGED <<offRelayVars, response_head, upstream>>

\* the body prefix handle_reverse_proxy writes before relay_content_length
PrefixWritten(prefix, content_length) == prefix

Min(a, b) == IF a < b THEN a ELSE b

\* handle_reverse_proxy writes the body prefix; relay_content_length up to its
\* first read
RelayContentLengthStart ==
    /\ relay.pc = "start"
    /\ Strategy(response_head.info) = "content_length"
    /\ LET content_length == response_head.info.content_length
           already_sent == Len(response_head.body_prefix)
           remaining == SaturatingSub(content_length, already_sent)
       IN \/ /\ client' = client \o PrefixWritten(response_head.body_prefix,
                                                  content_length)
             /\ relay' = [relay EXCEPT !.fn = "relay_content_length",
                                       !.remaining = remaining,
                                       !.pc = IF remaining > 0
                                              THEN "content_length_read"
                                              ELSE "ok"]
          \/ \E part \in PartialWrites(response_head.body_prefix) :
                /\ client' = client \o part
                /\ relay' = [relay EXCEPT !.fn = "relay_content_length",
                                          !.pc = "io_error"]
    /\ UNCHANGED <<offRelayVars, response_head, upstream>>

\* if n == 0 { break; } in relay_content_length: how the function returns
ContentLengthEofIsError == "unexpected_eof"
ContentLengthEof == "ok"

\* upstream.read(&mut temp) in relay_content_length; to_write = n.min(remaining)
RelayContentLengthRead ==
    /\ relay.pc = "content_length_read"
    /\ \/ \E n \in 1..MaxRead :
             /\ CanRead(n)
             /\ relay' = [relay EXCEPT
                              !.pc = "content_length_write",
                              !.temp = Slice(ReadBlock(n), 0,
                                             Min(n, relay.remaining))]
             /\ upstream' = [upstream EXCEPT !.pos = @ + n]
       \/ /\ upstream.closed
          /\ relay' = [relay EXCEPT !.pc = ContentLengthEof]
          /\ UNCHANGED upstream
       \/ /\ relay' = [relay EXCEPT !.pc = "io_error"]
          /\ UNCHANGED upstream
    /\ UNCHANGED <<offRelayVars, response_head, client>>

\* client.write_all(&temp[..to_write]) in relay_content_length
RelayContentLengthWrite ==
    /\ relay.pc = "content_length_write"
    /\ \/ LET remaining == relay.remaining - Len(relay.temp) IN
          /\ client' = client \o relay.temp
          /\ relay' = [relay EXCEPT !.temp = <<>>,
                                    !.remaining = remaining,
                                    !.pc = IF remaining > 0
                                           THEN "content_length_read"
                                           ELSE "ok"]
       \/ \E part \in PartialWrites(relay.temp) :
             /\ client' = client \o part
             /\ relay' = [relay EXCEPT !.pc = "io_error"]
    /\ UNCHANGED <<offRelayVars, response_head, upstream>>

\* handle_reverse_proxy writes the body prefix before relay_until_eof
RelayUntilEofStart ==
    /\ relay.pc = "start"
    /\ Strategy(response_head.info) = "until_eof"
    /\ \/ /\ client' = client \o response_head.body_prefix
          /\ relay' = [relay EXCEPT !.fn = "relay_until_eof",
                                    !.pc = "until_eof_read"]
       \/ \E part \in PartialWrites(response_head.body_prefix) :
             /\ client' = client \o part
             /\ relay' = [relay EXCEPT !.fn = "relay_until_eof",
                                       !.pc = "io_error"]
    /\ UNCHANGED <<offRelayVars, response_head, upstream>>

\* upstream.read(&mut temp) in relay_until_eof
RelayUntilEofRead ==
    /\ relay.pc = "until_eof_read"
    /\ \/ \E n \in 1..MaxRead :
             /\ CanRead(n)
             /\ relay' = [relay EXCEPT !.pc = "until_eof_write",
                                       !.temp = ReadBlock(n)]
             /\ upstream' = [upstream EXCEPT !.pos = @ + n]
       \/ /\ upstream.closed
          /\ relay' = [relay EXCEPT !.pc = "ok"]
          /\ UNCHANGED upstream
       \/ /\ relay' = [relay EXCEPT !.pc = "io_error"]
          /\ UNCHANGED upstream
    /\ UNCHANGED <<offRelayVars, response_head, client>>

\* client.write_all(&temp[..n]) in relay_until_eof
RelayUntilEofWrite ==
    /\ relay.pc = "until_eof_write"
    /\ \/ /\ client' = client \o relay.temp
          /\ relay' = [relay EXCEPT !.temp = <<>>, !.pc = "until_eof_read"]
       \/ \E part \in PartialWrites(relay.temp) :
             /\ client' = client \o part
             /\ relay' = [relay EXCEPT !.pc = "io_error"]
    /\ UNCHANGED <<offRelayVars, response_head, upstream>>

RelayNext ==
    \/ UpstreamCloses
    \/ RelayWriteHead
    \/ RelayChunkedStart
    \/ RelayChunkedRead
    \/ RelayChunkedWrite
    \/ RelayContentLengthStart
    \/ RelayContentLengthRead
    \/ RelayContentLengthWrite
    \/ RelayUntilEofStart
    \/ RelayUntilEofRead
    \/ RelayUntilEofWrite

RelaySpec == RelayInit /\ [][RelayNext]_vars

\* ============================================ the first read of a request
SP == " "

\* str::split_whitespace over the rest s of a string, cur being the token begun
RECURSIVE Tokens(_, _)
Tokens(s, cur) ==
    IF s = <<>> THEN (IF cur = <<>> THEN <<>> ELSE <<cur>>)
    ELSE IF s[1] \in Whitespace
    THEN (IF cur = <<>> THEN <<>> ELSE <<cur>>) \o Tokens(Tail(s), <<>>)
    ELSE Tokens(Tail(s), Append(cur, s[1]))

split_whitespace(s) == Tokens(s, <<>>)

\* parts.next().unwrap_or(default) for the n-th call of next()
NthOr(tokens, n, default) == IF Len(tokens) >= n THEN tokens[n] ELSE default

\* req_str.lines().next().unwrap_or(""): the text before the first \n, less
\* a \r right in front of it
first_line(bytes) ==
    LET nl == FindFrom(bytes, 0, <<LF>>)
    IN IF nl = -1 THEN bytes
       ELSE IF nl > 0 /\ bytes[nl] = CR THEN Slice(bytes, 0, nl - 1)
       ELSE Slice(bytes, 0, nl)

\* first_line.split_whitespace().nth(1).unwrap_or("/") of handle_client
request_path(bytes) == NthOr(split_whitespace(first_line(bytes)), 2, <<"/">>)

\* str::replace(pat, to): every occurrence, left to right
RECURSIVE replace(_, _, _)
replace(str, pat, to) ==
    LET at == FindFrom(str, 0, pat)
    IN IF at = -1 \/ pat = <<>> THEN str
       ELSE Slice(str, 0, at) \o to
            \o replace(Slice(str, at + Len(pat), Len(str)), pat, to)

\* str::replacen(pat, to, 1): the first occurrence only
replacen(str, pat, to) ==
    LET at == FindFrom(str, 0, pat)
    IN IF at = -1 THEN str
       ELSE Slice(str, 0, at) \o to \o Slice(str, at + Len(pat), Len(str))

\* &request_bytes[line_end..]: what rewrite_request_line appends to the new line
AfterLineEnding(request_bytes, line_end) ==
    Slice(request_bytes, line_end + 2, Len(request_bytes))
FromLineEnd(request_bytes, line_end) ==
    Slice(request_bytes, line_end, Len(request_bytes))

\* rewrite_request_line
rewrite_request_line(request_bytes, route) ==
    LET line_end == FindFrom(request_bytes, 0, <<CR, LF>>)
        parts == split_whitespace(Slice(request_bytes, 0, line_end))
        method == NthOr(parts, 1, <<>>)
        path == NthOr(parts, 2, <<>>)
        version == NthOr(parts, 3, <<>>)
        new_path == IF starts_with(path, route) THEN replacen(path, route, <<"/">>)
                    ELSE path
    IN IF line_end = -1 THEN request_bytes
       ELSE IF method = <<>> \/ version = <<>> THEN request_bytes
       ELSE method \o <<SP>> \o new_path \o <<SP>> \o version
            \o FromLineEnd(request_bytes, line_end)

\* ---- the first reads a client can send
Methods == {<<"G", "E", "T">>}
Versions == {<<"H", "T", "T", "P", "/", "1", ".", "1">>}
Separators == {<<SP>>, <<SP, SP>>}

\* method path version, method path, or a method alone
RequestLines ==
    {m \o sep \o q \o sep \o v :
        m \in Methods, sep \in Separators, q \in Paths, v \in Versions}
    \cup {m \o <<SP>> \o q : m \in Methods, q \in Paths}
    \cup Methods

\* what follows the request line in the read: the line ending and a header
\* block, with CRLF or bare LF line endings, or nothing (the read ends there)
AfterRequestLine ==
    {<<CR, LF, "h", CR, LF, CR, LF>>,
     <<LF, "h", LF, LF>>,
     <<LF, "h", CR, LF, CR, LF>>,
     <<>>}

FirstReads == {l \o e : l \in RequestLines, e \in AfterRequestLine}

\* ---- RequestSpec: handle_client from its first read to the request write
RequestInit ==
    /\ PoolAtRest
    /\ RelayAtRest
    /\ MasterAtRest
    /\ ReadingAtRest
    /\ forwarded = <<>>
    /\ \E b \in FirstReads :
          request = [pc |-> "read", request_bytes |-> b, route |-> <<>>]

\* handle_client: a route matches and handle_reverse_proxy runs with it
RequestRouteProxy ==
    /\ request.pc = "read"
    /\ \E r \in MatchingRoutes(request_path(request.request_bytes)) :
          request' = [request EXCEPT !.pc = "proxy", !.route = r]
    /\ UNCHANGED <<offRequestVars, forwarded>>

\* handle_client: no route matches and handle_static_file runs
RequestRouteStatic ==
    /\ request.pc = "read"
    /\ MatchingRoutes(request_path(request.request_bytes)) = {}
    /\ request' = [request EXCEPT !.pc = "static"]
    /\ UNCHANGED <<offRequestVars, forwarded>>

\* upstream_stream.write_all(&rewrite_request_line(request_bytes, route))
RequestForward ==
    /\ request.pc = "proxy"
    /\ forwarded' = rewrite_request_line(request.request_bytes, request.route)
    /\ request' = [request EXCEPT !.pc = "sent"]
    /\ UNCHANGED offRequestVars

RequestNext ==
    \/ RequestRouteProxy
    \/ RequestRouteStatic
    \/ RequestForward

RequestSpec == RequestInit /\ [][RequestNext]_vars

\* ============================================================ the supervisor
\* the processes spawned and not yet exited
Alive == {c \in DOMAIN children : children[c].life = "alive"}

\* spawn_workers: the children it creates, the next process ids
NewWorkers == [k \in 1..NumWorkers |-> Len(children) + k]

\* the for loop over &mut workers is through
KillsOnlyFirst(i, workers) == i > 1
KillsDone(i, workers) == i > Len(workers)

\* ---- MasterSpec: Init is run_master_process entering its loop
MasterInit ==
    /\ PoolAtRest
    /\ RelayAtRest
    /\ RequestAtRest
    /\ ReadingAtRest
    /\ \E m \in 0..MaxMtime :
          /\ config_file = [modified |-> m, readable |-> TRUE]
          /\ master = [NoMaster EXCEPT !.pc = "sleep", !.last_modified = m,
                                       !.workers = [k \in 1..NumWorkers |-> k],
                                       !.spawned = 1]
    /\ children = [k \in 1..NumWorkers |-> [life |-> "alive", set |-> 1]]

\* time::sleep(1s) is over and fs::metadata(config_path) answers: Err, or the
\* metadata with its modification time (modified() failing counts as Err here)
MasterPoll ==
    /\ master.pc = "sleep"
    /\ master' = [master EXCEPT
                      !.pc = "polled",
                      !.observed = IF config_file.readable
                                   THEN config_file.modified ELSE -1]
    /\ UNCHANGED <<offMasterVars, children, config_file>>

\* if modified > last_modified { last_modified = modified; ... }
MasterCompare ==
    /\ master.pc = "polled"
    /\ IF master.observed # -1 /\ master.observed > master.last_modified
       THEN master' = [master EXCEPT !.pc = "kill", !.i = 1, !.observed = -1,
                                     !.last_modified = master.observed]
       ELSE master' = [master EXCEPT !.pc = "sleep", !.observed = -1]
    /\ UNCHANGED <<offMasterVars, children, config_file>>

\* one turn of for worker in &mut workers { worker.kill().await? }: the child
\* is killed and reaped, or kill fails and run_master_process returns, which
\* drops every Child (kill_on_drop)
MasterKill ==
    /\ master.pc = "kill"
    /\ ~KillsDone(master.i, master.workers)
    /\ \/ /\ children' = [children EXCEPT ![master.workers[master.i]].life = "exited"]
          /\ master' = [master EXCEPT !.i = @ + 1]
       \/ /\ children' = [c \in DOMAIN children |->
                              [children[c] EXCEPT !.life = "exited"]]
          /\ master' = [master EXCEPT !.pc = "returned", !.workers = <<>>, !.i = 0]
    /\ UNCHANGED <<offMasterVars, config_file>>

\* spawn_workers after the kills: the new set replaces the old one, or a spawn
\* fails, the children created so far are dropped and the old handles stay
MasterSpawn ==
    /\ master.pc = "kill"
    /\ KillsDone(master.i, master.workers)
    /\ \/ /\ Len(children) + NumWorkers <= MaxChildren
          /\ children' = children \o [k \in 1..NumWorkers |->
                                         [life |-> "alive", set |-> master.spawned + 1]]
          /\ master' = [master EXCEPT !.pc = "sleep", !.i = 0, !.workers = NewWorkers,
                                      !.spawned = @ + 1]
       \/ /\ master' = [master EXCEPT !.pc = "sleep", !.i = 0]
          /\ UNCHANGED children
    /\ UNCHANGED <<offMasterVars, config_file>>

\* config.json is written, touched back in time, removed or restored
ConfigChanges ==
    /\ master.pc # "returned"
    /\ \E m \in 0..MaxMtime, r \in BOOLEAN :
          /\ [modified |-> m, readable |-> r] # config_file
          /\ config_file' = [modified |-> m, readable |-> r]
    /\ UNCHANGED <<offMasterVars, master, children>>

\* a worker process ends by itself (run_worker_process returns an error)
WorkerExits ==
    /\ \E c \in Alive : children' = [children EXCEPT ![c].life = "exited"]
    /\ UNCHANGED <<offMasterVars, master, config_file>>

MasterNext ==
    \/ MasterPoll
    \/ MasterCompare
    \/ MasterKill
    \/ MasterSpawn
    \/ ConfigChanges
    \/ WorkerExits

MasterSpec == MasterInit /\ [][MasterNext]_vars

\* the supervisor keeps running: its timer fires, fs::metadata, kill().await
\* and spawn return; nothing obliges config.json to change or a worker to exit
MasterLiveSpec ==
    /\ MasterInit
    /\ [][MasterNext]_vars
    /\ WF_vars(MasterPoll)
    /\ WF_vars(MasterCompare)
    /\ WF_vars(MasterKill)
    /\ WF_vars(MasterSpawn)

\* ================================================ the response head, parsed
UpperCase == <<"A", "B", "C", "D", "E", "F", "G", "H", "I", "J", "K", "L", "M",
               "N", "O", "P", "Q", "R", "S", "T", "U", "V", "W", "X", "Y", "Z">>
LowerCase == <<"a", "b", "c", "d", "e", "f", "g", "h", "i", "j", "k", "l", "m",
               "n", "o", "p", "q", "r", "s", "t", "u", "v", "w", "x", "y", "z">>

\* str::to_ascii_lowercase
to_ascii_lowercase(str) ==
    [k \in 1..Len(str) |->
        IF \E n \in 1..26 : UpperCase[n] = str[k]
        THEN LowerCase[CHOOSE n \in 1..26 : UpperCase[n] = str[k]]
        ELSE str[k]]

\* str::contains
contains(str, pat) == FindFrom(str, 0, pat) # -1

\* str::lines: split at \n, a \r in front of the \n goes with it
RECURSIVE lines(_)
lines(str) ==
    IF str = <<>> THEN <<>>
    ELSE LET nl == FindFrom(str, 0, <<LF>>)
         IN IF nl = -1 THEN <<str>>
            ELSE <<IF nl > 0 /\ str[nl] = CR THEN Slice(str, 0, nl - 1)
                   ELSE Slice(str, 0, nl)>>
                 \o lines(Slice(str, nl + 1, Len(str)))

\* the digits of str::parse::<usize>, most significant first; -1: Err
RECURSIVE DecNumber(_, _)
DecNumber(b, acc) ==
    IF b = <<>> THEN acc
    ELSE IF HexValue(b[1]) \notin 0..9 THEN -1
    ELSE DecNumber(Tail(b), 10 * acc + HexValue(b[1]))

\* value.parse::<usize>().ok(); -1: None
parse_usize(value) ==
    LET digits == IF value # <<>> /\ value[1] = "+" THEN Tail(value) ELSE value
    IN IF digits = <<>> THEN -1 ELSE DecNumber(digits, 0)

ConnectionKey == <<"c", "o", "n", "n", "e", "c", "t", "i", "o", "n">>
ContentLengthKey == <<"c", "o", "n", "t", "e", "n", "t", "-", "l", "e", "n", "g", "t", "h">>
TransferEncodingKey == <<"t", "r", "a", "n", "s", "f", "e", "r", "-", "e", "n", "c", "o", "d", "i", "n", "g">>
KeepAliveToken == <<"k", "e", "e", "p", "-", "a", "l", "i", "v", "e">>
CloseToken == <<"c", "l", "o", "s", "e">>
ChunkedToken == <<"c", "h", "u", "n", "k", "e", "d">>
Http10 == <<"H", "T", "T", "P", "/", "1", ".", "0">>

\* the locals connection, content_length and chunked before the loop
NoFields == [connection |-> [some |-> FALSE, value |-> <<>>],
             content_length |-> -1, chunked |-> FALSE]

\* connection = Some(value)
LastConnection(acc, value) == [some |-> TRUE, value |-> value]

\* the loop of parse_response_info over the lines after the status line
RECURSIVE ScanFields(_, _)
ScanFields(ls, acc) ==
    IF ls = <<>> THEN acc
    ELSE LET line == Head(ls)
             colon == FindFrom(line, 0, <<":">>)
             key == to_ascii_lowercase(Trim(Slice(line, 0, colon)))
             value == to_ascii_lowercase(Trim(Slice(line, colon + 1, Len(line))))
         IN IF colon = -1 THEN ScanFields(Tail(ls), acc)
            ELSE ScanFields(Tail(ls),
                   CASE key = ConnectionKey ->
                          [acc EXCEPT !.connection = LastConnection(acc, value)]
                     [] key = ContentLengthKey ->
                          [acc EXCEPT !.content_length = parse_usize(value)]
                     [] key = TransferEncodingKey ->
                          [acc EXCEPT !.chunked = @ \/ contains(value, ChunkedToken)]
                     [] OTHER -> acc)

\* parse_response_info over the header bytes
parse_response_header(header) ==
    LET ls == lines(header)
        status_line == IF ls = <<>> THEN <<>> ELSE Head(ls)
        is_http10 == starts_with(status_line, Http10)
        f == ScanFields(IF ls = <<>> THEN <<>> ELSE Tail(ls), NoFields)
    IN [keep_alive |->
            IF is_http10
            THEN f.connection.some /\ contains(f.connection.value, KeepAliveToken)
            ELSE ~(f.connection.some /\ contains(f.connection.value, CloseToken)),
        content_length |-> f.content_length,
        chunked |-> f.chunked]

\* ---- the heads an upstream sends
StatusLines ==
    {<<"H", "T", "T", "P", "/", "1", ".", "0", SP, "2", "0", "0">>,
     <<"H", "T", "T", "P", "/", "1", ".", "1", SP, "2", "0", "0">>}

FieldLines ==
    {<<"C", "o", "n", "n", "e", "c", "t", "i", "o", "n", ":", SP, "c", "l", "o", "s", "e">>,
     <<"c", "o", "n", "n", "e", "c", "t", "i", "o", "n", ":", SP, "K", "e", "e", "p", "-", "A", "l", "i", "v", "e">>,
     <<"C", "o", "n", "n", "e", "c", "t", "i", "o", "n", ":", SP, "u", "p", "g", "r", "a", "d", "e">>,
     <<"T", "r", "a", "n", "s", "f", "e", "r", "-", "E", "n", "c", "o", "d", "i", "n", "g", ":", SP, "c", "h", "u", "n", "k", "e", "d">>,
     <<"t", "r", "a", "n", "s", "f", "e", "r", "-", "e", "n", "c", "o", "d", "i", "n", "g", ":", SP, "g", "z", "i", "p", ",", SP, "C", "h", "u", "n", "k", "e", "d">>,
     <<"C", "o", "n", "t", "e", "n", "t", "-", "L", "e", "n", "g", "t", "h", ":", SP, "2">>,
     <<"X", "-", "N", "o", "t", "e", ":", SP, "c", "l", "o", "s", "e", ",", SP, "c", "h", "u", "n", "k", "e", "d">>}

\* a status line and up to MaxFields field lines, each with its CRLF, and the
\* empty line
RECURSIVE FieldBlocks(_)
FieldBlocks(n) ==
    IF n = 0 THEN {<<>>}
    ELSE FieldBlocks(n - 1)
         \cup {b \o l \o <<CR, LF>> : b \in FieldBlocks(n - 1), l \in FieldLines}

HeaderTexts ==
    {st \o <<CR, LF>> \o b \o <<CR, LF>> : st \in StatusLines, b \in FieldBlocks(MaxFields)}

\* ---- InfoSpec: read_response_head with the header complete in its buffer
InfoInit ==
    /\ PoolAtRest
    /\ RequestAtRest
    /\ MasterAtRest
    /\ ReadingAtRest
    /\ upstream = NoUpstream
    /\ client = <<>>
    /\ client_head = <<>>
    /\ relay = [NoRelay EXCEPT !.pc = "parse_head"]
    /\ \E h \in HeaderTexts : response_head = [NoHead EXCEPT !.header = h]

\* let info = parse_response_info(&header)
InfoParse ==
    /\ relay.pc = "parse_head"
    /\ response_head' = [response_head EXCEPT
                            !.info = parse_response_header(response_head.header)]
    /\ relay' = [relay EXCEPT !.pc = "write_head"]
    /\ UNCHANGED <<offRelayVars, upstream, client>>

InfoNext == InfoParse

InfoSpec == InfoInit /\ [][InfoNext]_vars

\* ================================================ the response head, read
\* read_response_head by the lengths of what it reads.  The stream is what the
\* upstream sends before it closes: sent bytes, the first \r\n\r\n ending at
\* byte head_end (0: the stream holds no \r\n\r\n).
\* if buffer.len() > 32768
MaxHeaderBytes == 32768
\* let mut temp = [0u8; 4096]
TempLen == 4096

\* buffer.len() > 32768
TooLargeAtCap(len) == len >= MaxHeaderBytes
TooLarge(len) == len > MaxHeaderBytes

\* find_header_end(&buffer) on the first len bytes of the stream: the index
\* after the first \r\n\r\n, or 0 for None
HeaderEndWithin(head_end, len) == IF head_end # 0 /\ head_end <= len THEN head_end ELSE 0

\* the byte counts one stream.read(&mut temp) returns when left bytes wait
ReadSizes(left) ==
    {n \in {TempLen \div 2, TempLen - 1, TempLen, left} : n >= 1 /\ n <= left /\ n <= TempLen}

\* ---- the responses an upstream sends
HeadEnds == {4, MaxHeaderBytes - TempLen, MaxHeaderBytes - 1, MaxHeaderBytes,
             MaxHeaderBytes + 1}
BodyLens == {0, 1, TempLen}
UnterminatedLens == {0, 1, MaxHeaderBytes, MaxHeaderBytes + 1}

\* ---- HeadSpec: handle_reverse_proxy entering read_response_head
HeadInit ==
    /\ PoolAtRest
    /\ RelayAtRest
    /\ RequestAtRest
    /\ MasterAtRest
    /\ \/ \E e \in HeadEnds, b \in BodyLens :
             reading = [NoReading EXCEPT !.pc = "read", !.head_end = e, !.sent = e + b]
       \/ \E l \in UnterminatedLens :
             reading = [NoReading EXCEPT !.pc = "read", !.sent = l]

\* stream.read(&mut temp) returns n > 0 bytes: extend the buffer, then the
\* size check, then find_header_end
HeadRead ==
    /\ reading.pc = "read"
    /\ \E n \in ReadSizes(reading.sent - reading.buffer) :
          LET len == reading.buffer + n
              end == HeaderEndWithin(reading.head_end, len)
          IN reading' =
                IF TooLarge(len)
                THEN [reading EXCEPT !.pc = "header_too_large", !.buffer = len]
                ELSE IF end # 0
                THEN [reading EXCEPT !.pc = "ok", !.buffer = len, !.header = end,
                                     !.body_prefix = len - end]
                ELSE [reading EXCEPT !.buffer = len]
    /\ UNCHANGED offReadingVars

\* stream.read returns 0: the upstream has closed
HeadEof ==
    /\ reading.pc = "read"
    /\ reading.buffer = reading.sent
    /\ reading' = [reading EXCEPT !.pc = "unexpected_eof"]
    /\ UNCHANGED offReadingVars

\* stream.read returns Err: the ? returns it
HeadReadFails ==
    /\ reading.pc = "read"
    /\ reading' = [reading EXCEPT !.pc = "io_error"]
    /\ UNCHANGED offReadingVars

HeadNext == HeadRead \/ HeadEof \/ HeadReadFails

HeadSpec == HeadInit /\ [][HeadNext]_vars

\* ================================================================== claims
\* the positions of the pool queues that hold socket s
PoolPositions(s) ==
    {p \in UNION {{<<a, i>> : i \in 1..Len(conns[a])} : a \in DOMAIN conns} :
        conns[p[1]][p[2]].stream = s}

\* the (task, local) pairs that own socket s
Owners(s) ==
    {o \in Tasks \X {"entry", "upstream_stream"} :
        IF o[2] = "entry" THEN task[o[1]].entry.stream = s
        ELSE task[o[1]].upstream_stream = s}

\* C1: every connected socket is in exactly one place: one position of one
\* pool queue, or one local of one handler task; a dropped socket and a socket
\* not yet connected are in none.  So get never hands a socket to two tasks,
\* and a socket that get returned is in no queue.
C1_SocketInOnePlace ==
    \A s \in Socks :
        Cardinality(PoolPositions(s)) + Cardinality(Owners(s))
            = IF sock[s].life = "open" THEN 1 ELSE 0

\* C1 witness: a task owns a stream that get took from the pool (it passed the
\* probe with unread bytes) while another task owns another stream
C1_Witness ==
    \E t, u \in Tasks :
        /\ t # u
        /\ task[t].pc = "send"
        /\ sock[task[t].upstream_stream].unread
        /\ task[u].upstream_stream # 0

\* C2: whenever the pool lock is not held, total equals the sum of the
\* lengths of all per-address queues
C2_TotalIsQueueSum == lock = 0 => total = QueueSum

\* C2 witness: the lock is free after get has discarded a candidate, with
\* another connection still pooled
C2_Witness ==
    /\ lock = 0
    /\ total = 1
    /\ \E t \in Tasks : task[t].pc = "get" /\ task[t].discarded # "none"

\* C3: after recycle has returned (the lock is free again) total <= max_size,
\* for every max_size >= 0
C3_TotalWithinMaxSize == lock = 0 => total <= max_size

\* C3 witness: with max_size = 0 recycle has evicted the connection it has
\* just pushed and is about to return with an empty pool
C3_Witness ==
    \E t \in Tasks :
        /\ task[t].pc = "recycle_loop"
        /\ max_size = 0
        /\ task[t].evicted # 0
        /\ total = 0

\* C4: a socket on which the exchange parsed a response with keep_alive =
\* false is never recycled: it is in no pool queue, no get holds it as a
\* candidate, and its task is still before the reuse decision
C4_OnlyKeepAliveRecycled ==
    \A s \in Socks :
        sock[s].resp_close =>
            /\ s \notin PooledSocks
            /\ \A t \in Tasks :
                  /\ task[t].entry.stream # s
                  /\ task[t].upstream_stream = s
                        => task[t].pc \in {"write_head", "relay"}

\* C4 witness: a response with keep_alive = false has been parsed on a stream
\* that is about to be relayed, while a connection is pooled
C4_Witness ==
    \E t \in Tasks :
        /\ task[t].pc = "relay"
        /\ ~task[t].info.keep_alive
        /\ sock[task[t].upstream_stream].resp_close
        /\ total = 1

\* C5 (the claim as stated): a socket on whose exchange a read or write
\* failed is never recycled into the pool
C5_FailedExchangeNotRecycled ==
    \A s \in Socks :
        sock[s].io_failed =>
            /\ s \notin PooledSocks
            /\ \A t \in Tasks :
                  task[t].upstream_stream = s
                      => task[t].pc \notin {"recycle", "recycle_inc", "recycle_loop"}

\* all entries idle in the pool
PooledEntries ==
    UNION {{conns[a][i] : i \in 1..Len(conns[a])} : a \in DOMAIN conns}

\* C6: every eviction removes exactly one connection, the head of one queue,
\* and its last_used is the minimum over all connections pooled at that
\* moment, in all addresses, the one just recycled included
C6_EvictsGloballyOldest ==
    [][\A t \in Tasks :
          (/\ task[t].pc = "recycle_loop"
           /\ task'[t].pc = "recycle_loop"
           /\ <<conns, total, task[t]>>' # <<conns, total, task[t]>>) =>
              \E a \in DOMAIN conns :
                  /\ Len(conns[a]) > 0
                  /\ task'[t].evicted = conns[a][1].stream
                  /\ \A e \in PooledEntries : conns[a][1].last_used <= e.last_used
                  /\ PooledEntries' = PooledEntries \ {conns[a][1]}
                  /\ QueueSum' = QueueSum - 1
                  /\ sock'[conns[a][1].stream].life = "dropped"]_vars

\* C6 witness: recycle has evicted a connection and an older-or-equal one is
\* not left behind: one connection, returned later, stays pooled
C6_Witness ==
    \E t \in Tasks :
        /\ task[t].pc = "recycle_loop"
        /\ task[t].evicted # 0
        /\ \E e \in PooledEntries : e.last_used > 0

\* C7: get returns a pooled stream only when the probe found bytes to peek
\* at; a candidate whose probe reports zero bytes, times out or errors is
\* dropped and the loop goes on; with the queue exhausted get connects anew
C7_ProbeGuardsReuse ==
    [][\A t \in Tasks :
          LET s == task[t].entry.stream IN
          /\ (task[t].pc = "check" /\ task'[t].pc = "send") =>
                /\ "data" \in ProbeResults(sock[s])
                /\ task'[t].upstream_stream = s
                /\ sock'[s].life = "open"
          /\ (task[t].pc = "check" /\ task'[t] # task[t]
                /\ ProbeResults(sock[s]) \cap {"data"} = {}) =>
                /\ task'[t].pc = "get"
                /\ sock'[s].life = "dropped"
          /\ (task[t].pc = "get_unlock" /\ task[t].entry = NoEntry
                /\ task'[t] # task[t]) =>
                task'[t].pc = "connect"
          /\ (task[t].pc = "connect" /\ task'[t].pc = "send") =>
                /\ sock[task'[t].upstream_stream].life = "unborn"
                /\ sock'[task'[t].upstream_stream].life = "open"]_vars

\* C7 witness: get has dropped a candidate whose peer had closed (the peek
\* reported zero bytes) and the queue of its address is exhausted
C7_Witness ==
    \E t \in Tasks :
        /\ task[t].pc = "get"
        /\ task[t].discarded = "zero"
        /\ (task[t].addr \notin DOMAIN conns \/ conns[task[t].addr] = <<>>)


\* ---- the body relay (RelaySpec)

\* the chunked grammar read off the bytes b from offset pos: some zero-size
\* chunk line is there and a \r\n\r\n follows, the line's own CRLF being its
\* first half when the trailer block is empty
RECURSIVE TerminatorReceived(_, _)
TerminatorReceived(b, pos) ==
    LET line_end == FindFrom(b, pos, <<CR, LF>>)
        size == parse_chunk_size(Slice(b, pos, line_end))
    IN /\ line_end # -1
       /\ size # -1
       /\ IF size = 0 THEN FindFrom(b, line_end, <<CR, LF, CR, LF>>) # -1
          ELSE /\ Len(b) >= line_end + 2 + size + 2
               /\ TerminatorReceived(b, line_end + 2 + size + 2)

\* C8: once the zero-size chunk line and the \r\n\r\n ending the (possibly
\* empty) trailer block have been received and forwarded, relay_chunked has
\* returned Ok: it neither waits for another upstream read nor fails on a close
C8_ReturnsOnTerminator ==
    (/\ Strategy(response_head.info) = "chunked"
     /\ relay.pc \in {"chunked_read", "unexpected_eof", "invalid_chunk_size", "ok"}
     /\ TerminatorReceived(Received, 0))
    => relay.pc = "ok"

IsPrefix(a, b) == Len(a) <= Len(b) /\ a = SubSeq(b, 1, Len(a))

\* C9: in a chunked relay the bytes written to the client are exactly the body
\* bytes read from the upstream so far, prefix first and framing included: all
\* of them whenever the relay reads again or returns, all but the block being
\* written while a write is under way, and never anything else
C9_ClientStreamIsUpstreamStream ==
    Strategy(response_head.info) = "chunked" =>
        /\ relay.pc \in {"chunked_read", "ok", "unexpected_eof",
                         "invalid_chunk_size"} => client = Received
        /\ relay.pc = "chunked_write" => client \o relay.temp = Received
        /\ relay.pc = "start" => client = <<>>
        /\ IsPrefix(client, Received)

\* a read block that ends inside a chunk's data has been forwarded after a
\* non-empty prefix, and the relay waits for the rest of the chunk
C9_Witness ==
    /\ Strategy(response_head.info) = "chunked"
    /\ relay.pc = "chunked_read"
    /\ relay.mode = "data"
    /\ response_head.body_prefix # <<>>
    /\ upstream.pos > Len(response_head.body_prefix)
    /\ client = Received
    /\ \E i \in 1..Len(client) : client[i] = CR

\* C10: a content-length relay that returned Ok after the upstream supplied
\* at least content_length body bytes has written exactly content_length
\* bytes to the client
C10_ExactlyContentLength ==
    (/\ Strategy(response_head.info) = "content_length"
     /\ relay.pc = "ok"
     /\ upstream.pos >= response_head.info.content_length)
    => Len(client) = response_head.info.content_length

\* ---- the request line (RequestSpec)

\* what handle_reverse_proxy wrote differs from s only in the path, which is
\* "/" and what follows the prefix p in the path of s
PathAfter(path, p) == <<"/">> \o Slice(path, Len(p), Len(path))

PrefixesOf(path) == {r \in DOMAIN Upstreams : starts_with(path, r)}

\* C12: a request leaves the routing for the static responder exactly when no
\* configured prefix starts its path, and the static responder's task then
\* does nothing but return, the pool, the sockets and the connection count
\* staying as they are; otherwise it goes to the proxy path with the address
\* of a prefix that starts its path
C12_RoutingByPrefix ==
    [][\A t \in Tasks :
          /\ (task[t].pc = "idle" /\ task'[t].pc \in {"static", "get"}) =>
                /\ task'[t].pc = "static" <=> PrefixesOf(task'[t].path) = {}
                /\ task'[t].pc = "get" =>
                      \E r \in PrefixesOf(task'[t].path) :
                          task'[t].addr = Upstreams[r]
                /\ UNCHANGED <<conns, total, lock, next_sock, sock>>
          /\ (task[t].pc = "static" /\ task'[t] # task[t]) =>
                /\ task'[t] = IdleTask
                /\ UNCHANGED <<conns, total, lock, next_sock, sock>>]_vars

\* the static responder serves /x/a, which holds the prefix /a but does not
\* start with it, while a connection idles in the pool
C12_Witness ==
    \E t \in Tasks :
        /\ task[t].pc = "static"
        /\ task[t].path = <<"/", "x", "/", "a">>
        /\ total = 1
        /\ lock = 0

\* ---- the failed connect (Spec)

\* C13: a get that leaves its connect without a new socket has written nothing
\* to any upstream: the task goes to the 502 Bad Gateway for the client, and
\* from there only returns; neither step touches the pool or a socket, so
\* nothing is sent and nothing is recycled
C13_ConnectFailureGives502 ==
    [][\A t \in Tasks :
          /\ (task[t].pc = "connect" /\ task'[t] # task[t] /\ next_sock' = next_sock) =>
                /\ task'[t].pc = "bad_gateway"
                /\ task'[t].upstream_stream = 0
                /\ UNCHANGED <<conns, total, lock, sock>>
          /\ (task[t].pc = "bad_gateway" /\ task'[t] # task[t]) =>
                /\ task'[t] = IdleTask
                /\ UNCHANGED <<conns, total, lock, next_sock, sock>>]_vars

\* the 502 goes out for address 2 while the pool holds an idle connection to
\* address 1, which get(2) did not consider
C13_Witness ==
    \E t \in Tasks :
        /\ task[t].pc = "bad_gateway"
        /\ task[t].addr = 2
        /\ 1 \in DOMAIN conns
        /\ Len(conns[1]) = 1
        /\ total = 1

\* ---- header before body (RelaySpec)

\* C14: whatever the strategy, the client has the whole header before its
\* first body byte, and the body bytes it has are the first bytes of what the
\* upstream sent, in the upstream's order
C14_HeadBeforeBodyInOrder ==
    /\ IsPrefix(client_head, response_head.header)
    /\ client # <<>> => client_head = response_head.header
    /\ IsPrefix(client, upstream.stream)

\* a read-until-close relay has passed on three body bytes, after the header
C14_Witness ==
    /\ Strategy(response_head.info) = "until_eof"
    /\ relay.pc = "until_eof_read"
    /\ client_head = response_head.header
    /\ Len(client) = 3
    /\ Len(response_head.body_prefix) = 1

\* ---- the supervisor (MasterSpec)

\* C15: the step after a poll records a strictly newer modification time and
\* goes on to the kills, and otherwise (equal, older, or metadata unreadable)
\* leaves the recorded time and the worker set as they were; the supervisor
\* leaves the kills for the spawn only with every worker of the set exited;
\* and the processes alive at any time were all spawned in the same set
C15_ReloadKillsThenSpawns ==
    [][/\ (master.pc = "polled" /\ master' # master) =>
             /\ children' = children
             /\ master'.workers = master.workers
             /\ IF master.observed # -1 /\ master.observed > master.last_modified
                THEN master'.pc = "kill" /\ master'.last_modified = master.observed
                ELSE master'.pc = "sleep"
                     /\ master'.last_modified = master.last_modified
       /\ (master.pc = "kill" /\ master'.pc = "sleep") =>
             \A k \in 1..Len(master.workers) :
                 children[master.workers[k]].life = "exited"
       /\ \A c, d \in Alive' : children'[c].set = children'[d].set]_vars

\* after one reload the second set of workers runs and the first has exited
C15_Witness ==
    /\ master.pc = "sleep"
    /\ master.spawned = 2
    /\ master.last_modified > 0
    /\ Len(children) = 2 * NumWorkers
    /\ \A c \in DOMAIN children :
          children[c].life = IF children[c].set = 2 THEN "alive" ELSE "exited"

\* ---- the strategy (RelaySpec)

\* C16: once the header is with the client and the relay has left its start,
\* one relay function has been entered, and it is relay_chunked when chunked is
\* true (a Content-Length notwithstanding), else relay_content_length when a
\* content length was parsed, else relay_until_eof; before that, none has
C16_ExactlyOneStrategy ==
    LET i == response_head.info IN
    /\ relay.fn \in {"none", "relay_chunked", "relay_content_length",
                     "relay_until_eof"}
    /\ relay.fn = "none" <=>
          \/ relay.pc \in {"off", "write_head", "start"}
          \/ client_head # response_head.header
    /\ relay.fn = "relay_chunked" => i.chunked
    /\ relay.fn = "relay_content_length" => ~i.chunked /\ i.content_length # -1
    /\ relay.fn = "relay_until_eof" => ~i.chunked /\ i.content_length = -1

\* a response with both Transfer-Encoding: chunked and a Content-Length has
\* been relayed to its end by relay_chunked
C16_Witness ==
    /\ response_head.info.chunked
    /\ response_head.info.content_length = 2
    /\ relay.fn = "relay_chunked"
    /\ relay.pc = "ok"
    /\ Len(client) > 2

\* ---- parse_response_info (InfoSpec)

\* the values, trimmed and in lower case, of the field lines of a header whose
\* name is key
RECURSIVE ValuesIn(_, _)
ValuesIn(ls, key) ==
    IF ls = <<>> THEN {}
    ELSE LET line == Head(ls)
             colon == FindFrom(line, 0, <<":">>)
         IN (IF colon # -1
                /\ to_ascii_lowercase(Trim(Slice(line, 0, colon))) = key
             THEN {to_ascii_lowercase(Trim(Slice(line, colon + 1, Len(line))))}
             ELSE {})
            \cup ValuesIn(Tail(ls), key)

FieldValues(header, key) == ValuesIn(Tail(lines(header)), key)

\* C17: the parsed keep_alive is, under a status line starting with HTTP/1.0,
\* that some Connection header's value contains keep-alive and, under any
\* other, that no Connection header's value contains close; the parsed
\* chunked is that some Transfer-Encoding header's value contains chunked
C17_KeepAliveAndChunked ==
    relay.pc = "write_head" =>
        LET header == response_head.header
            connection == FieldValues(header, ConnectionKey)
            encoding == FieldValues(header, TransferEncodingKey)
        IN /\ response_head.info.keep_alive <=>
                 IF starts_with(Head(lines(header)), Http10)
                 THEN \E v \in connection : contains(v, KeepAliveToken)
                 ELSE ~(\E v \in connection : contains(v, CloseToken))
           /\ response_head.info.chunked <=>
                 \E v \in encoding : contains(v, ChunkedToken)


\* a step of get by task t from the position pc
GetStepFrom(t, pc) == task[t].pc = pc /\ task'[t] # task[t]

\* C18: get(address) examines the idle connections of that address only, most
\* recently returned first: the pop takes the last (latest last_used) entry of
\* the queue of the address and leaves every other queue as it is; an expired
\* entry is dropped and the same address is tried again; a connection is
\* returned from the pool only unexpired and with the probe passed; a new
\* connection is opened only once the queue had nothing left.
C18_GetTakesMostRecentOfAddress ==
    [][\A t \in Tasks :
          LET a == task[t].addr
              e == task[t].entry
          IN /\ GetStepFrom(t, "get") =>
                   /\ task'[t].pc = "get_unlock"
                   /\ DOMAIN conns' = DOMAIN conns
                   /\ \A b \in DOMAIN conns \ {a} : conns'[b] = conns[b]
                   /\ IF a \in DOMAIN conns /\ conns[a] # <<>>
                      THEN /\ task'[t].entry = conns[a][Len(conns[a])]
                           /\ conns'[a] = SubSeq(conns[a], 1, Len(conns[a]) - 1)
                           /\ \A k \in 1..Len(conns[a]) :
                                 conns[a][k].last_used <= task'[t].entry.last_used
                      ELSE /\ task'[t].entry = NoEntry
                           /\ conns' = conns
             /\ GetStepFrom(t, "get_unlock") =>
                   /\ conns' = conns
                   /\ task'[t].pc = (IF e = NoEntry THEN "connect" ELSE "check")
             /\ GetStepFrom(t, "check") =>
                   /\ conns' = conns
                   /\ total' = total
                   /\ \/ /\ task'[t].pc = "get"
                         /\ task'[t].addr = a
                         /\ sock'[e.stream].life = "dropped"
                      \/ /\ task'[t].pc = "send"
                         /\ task'[t].upstream_stream = e.stream
                         /\ now - e.last_used <= max_idle
                         /\ sock[e.stream].unread
                         /\ sock' = sock
                   /\ now - e.last_used > max_idle => task'[t].pc = "get"
             /\ GetStepFrom(t, "connect") =>
                   /\ conns' = conns
                   /\ total' = total
                   /\ task'[t].pc = "send" =>
                         /\ sock[task'[t].upstream_stream].life = "unborn"
                         /\ sock'[task'[t].upstream_stream].life = "open"]_vars

\* get dropped the most recently returned connection (2) and then returned
\* the one returned before it (1)
C18_Witness ==
    /\ task[1].pc = "send"
    /\ task[1].upstream_stream = 1
    /\ sock[2].life = "dropped"
    /\ next_sock = 3
    /\ task[2] = IdleTask


\* ---- read_response_head (HeadSpec)
\* the stream read so far holds a complete \r\n\r\n
TerminatorRead == reading.head_end # 0 /\ reading.head_end <= reading.buffer

\* what the claim and its amendment share: HeaderTooLarge only with more than
\* 32768 bytes accumulated, UnexpectedEof only with the stream closed before a
\* terminator arrived, success with header = the bytes through the first
\* terminator and body_prefix = every byte read after it
C19_Outcomes ==
    /\ reading.pc = "header_too_large" => reading.buffer > MaxHeaderBytes
    /\ reading.pc = "unexpected_eof" =>
          /\ reading.buffer = reading.sent
          /\ ~TerminatorRead
    /\ reading.pc = "ok" =>
          /\ TerminatorRead
          /\ reading.header = reading.head_end
          /\ reading.body_prefix = reading.buffer - reading.head_end
    /\ reading.pc = "read" => ~TerminatorRead /\ reading.buffer <= MaxHeaderBytes

\* C19 as stated: reading a response head ends (a failed read aside) in one
\* of the three outcomes HeaderTooLarge (accumulated bytes exceed 32768),
\* UnexpectedEof (closed before the terminator) and success, and a response
\* whose head is at most 32768 bytes long is parsed successfully.
C19_HeadWithinCapParsed ==
    /\ C19_Outcomes
    /\ (reading.head_end # 0 /\ reading.head_end <= MaxHeaderBytes) =>
          reading.pc \in {"read", "ok", "io_error"}

\* C19 as the code has it: the cap is on the bytes accumulated, body bytes
\* included, and is tested before the terminator is looked for; success is
\* the terminator found with at most 32768 bytes accumulated; a failed read is
\* a fourth outcome, possible only while no terminator has been read.
C19_AccumulatedWithinCapParsed ==
    /\ C19_Outcomes
    /\ reading.pc \in {"off", "read", "header_too_large", "unexpected_eof", "ok",
                       "io_error"}
    /\ reading.pc = "io_error" => ~TerminatorRead /\ reading.buffer <= MaxHeaderBytes
    /\ (TerminatorRead /\ reading.buffer <= MaxHeaderBytes) => reading.pc = "ok"
    /\ reading.buffer > MaxHeaderBytes => reading.pc = "header_too_large"

\* a head parsed with the buffer exactly at the cap and body bytes in it
C19_Witness ==
    /\ reading.pc = "ok"
    /\ reading.buffer = MaxHeaderBytes
    /\ reading.body_prefix > 0


\* ---- the truncated content-length body (RelaySpec)
\* C20: when the upstream has closed before content_length body bytes were
\* relayed, the read of relay_content_length that meets the close (a read
\* that does not fail) ends the relay with Ok: nothing more is written, the
\* client holds every body byte received, fewer than content_length, and the
\* reuse decision treats the exchange as one without I/O error (recycled
\* exactly when keep_alive)
C20_TruncatedBodyIsOk ==
    [][(/\ relay.pc = "content_length_read"
        /\ upstream.closed
        /\ relay' # relay
        /\ relay'.pc # "io_error")
       => /\ relay'.pc = "ok"
          /\ client' = client
          /\ client = Received
          /\ Len(client) < response_head.info.content_length
          /\ Recycles(relay'.pc = "ok", response_head.info)
                = response_head.info.keep_alive]_vars

\* a content-length relay has returned Ok on a close, with some but not all
\* of the body relayed
C20_Witness ==
    /\ relay.fn = "relay_content_length"
    /\ relay.pc = "ok"
    /\ upstream.closed
    /\ relay.remaining > 0
    /\ client # <<>>
    /\ Len(client) < response_head.info.content_length
    /\ Len(client) > Len(response_head.body_prefix)


\* ---- the rest of the first read (RequestSpec)
\* the first read of the request, up to its first \r\n, and the tokens there
RequestLineEnd == FindFrom(request.request_bytes, 0, <<CR, LF>>)
RequestLineTokens == split_whitespace(Slice(request.request_bytes, 0, RequestLineEnd))
RewriteApplies == RequestLineEnd # -1 /\ Len(RequestLineTokens) >= 3

\* b is a with one occurrence of the token old replaced by the token new
OnlyTokenChanged(a, b, old, new) ==
    \E i \in 0..Len(a) :
        /\ i + Len(old) <= Len(a)
        /\ Slice(a, i, i + Len(old)) = old
        /\ b = Slice(a, 0, i) \o new \o Slice(a, i + Len(old), Len(a))

SuspendedAt == {"check", "connect", "send", "body", "head", "write_head", "relay"}

\* C22: the pool lock is held only inside the critical sections of get and
\* recycle, never by a task suspended on socket I/O, the probe or a connect;
\* the holder can always take its next step by itself, and with the lock free
\* a task entering get or recycle can take it, whatever the other tasks wait on
C22_NoLockAcrossIo ==
    /\ lock \in Tasks \cup {0}
    /\ \A t \in Tasks :
          /\ task[t].pc \in SuspendedAt => lock # t
          /\ lock = t => task[t].pc \in {"get_unlock", "recycle_inc", "recycle_loop"}
          /\ lock = t => ENABLED (\/ GetUnlock(t)
                                  \/ RecycleInc(t)
                                  \/ RecycleEvict(t)
                                  \/ RecycleReturn(t))
          /\ (lock = 0 /\ task[t].pc = "get") => ENABLED GetPop(t)
          /\ (lock = 0 /\ task[t].pc = "recycle") => ENABLED RecyclePush(t)

\* one task waits for the response head of its upstream while another is
\* inside the critical section of recycle
C22_Witness ==
    /\ task[1].pc = "head"
    /\ task[2].pc = "recycle_loop"
    /\ lock = 2


\* ---- the order of a queue (Spec)
\* C23: in every pool state, each address's queue has its last_used
\* timestamps non-decreasing from head to tail, so its head is the least
\* recently returned connection of the address
C23_QueuesOrderedByLastUsed ==
    \A a \in DOMAIN conns :
       \A j, k \in 1..Len(conns[a]) :
          j < k => conns[a][j].last_used <= conns[a][k].last_used

\* a queue holds two connections returned at different times
C23_Witness ==
    \E a \in DOMAIN conns :
       /\ Len(conns[a]) = 2
       /\ conns[a][1].last_used < conns[a][2].last_used


\* ---- the silent healthy connection (GetSpec)
\* C24: a pooled connection that get has popped for its address, whose peer
\* keeps it open, that has been idle for less than max_idle and has no unread
\* bytes pending, is the connection get returns, and get opens no new one
C24_HealthyIdleConnectionReused ==
    [][\A t \in Tasks :
          LET e == task[t].entry
              s == e.stream
          IN (/\ task[t].pc = "check"
              /\ task'[t] # task[t]
              /\ sock[s].life = "open"
              /\ ~sock[s].peer_closed
              /\ ~sock[s].unread
              /\ now - e.last_used < max_idle)
             => /\ task'[t].pc = "send"
                /\ task'[t].upstream_stream = s
                /\ sock'[s].life = "open"
                /\ next_sock' = next_sock]_vars


\* ---- what recycle is given (Spec)
\* C25: a socket on which the body relay saw the upstream close (a truncated
\* content-length body, a read-until-close body) is not handed to recycle:
\* no exchange goes from its relay to recycle with the end of stream seen, and
\* no socket is pushed into a queue with its peer closed
C25_ClosedSocketNotPooled ==
    [][\A t \in Tasks :
          LET s == task[t].upstream_stream IN
          /\ (task[t].pc = "relay" /\ task'[t].pc = "recycle") =>
                ~sock'[s].peer_closed
          /\ (task[t].pc = "recycle" /\ task'[t].pc = "recycle_inc") =>
                ~sock[s].peer_closed]_vars

\* ---- what get hands out (Spec)
\* C26: a connection that get returns from the pool has no unread bytes left
\* over, and none wait on the upstream stream when the request is written to
\* it, so the response head read next is the reply to this request
C26_NoLeftoverBytesOnReuse ==
    [][\A t \in Tasks :
          /\ (task[t].pc = "check" /\ task'[t].pc = "send") =>
                ~sock[task[t].entry.stream].unread
          /\ (task[t].pc = "send" /\ task'[t] # task[t]) =>
                ~sock[task[t].upstream_stream].unread]_vars


\* ---- the reload completes (MasterLiveSpec)
\* C27: after the supervisor has detected a config change (it is about to
\* kill the set of workers it holds), it eventually is back in its polling
\* loop holding worker_count live workers, all of a set spawned after the
\* detection, whether or not a kill or a spawn failed on the way
C27_ReloadReachesRunning ==
    \A k \in 1..MaxChildren :
       (master.pc = "kill" /\ master.spawned = k)
       ~> (/\ master.pc = "sleep"
           /\ Len(master.workers) = NumWorkers
           /\ \A j \in 1..Len(master.workers) :
                 /\ children[master.workers[j]].life = "alive"
                 /\ children[master.workers[j]].set > k)

====
